---- MODULE Spec2Model ----
(***************************************************************************)
(* Shadow overlay wrappers of transactions-rs.                             *)
(*                                                                         *)
(*   HashWrap     (src/src/hash_wrap.rs)  overlay over a map, with a       *)
(*                finalize policy chosen by the type parameter B           *)
(*   GenericWrap  (src/src/gen_wrap.rs)   copy-on-write overlay of a value *)
(*                                                                         *)
(* Option<V> is a sequence of length at most one: None is <<>> and         *)
(* Some(v) is <<v>>.  A map is a function whose domain is its key set.     *)
(***************************************************************************)
EXTENDS Integers, Sequences, FiniteSets, TLC

\* ------------------------------------------------------------------ bounds

\* Mutating calls (insert, remove, get_mut, write through a handle) issued
\* on one wrapper.
MaxOps == 4

\* deref_mut calls and writes issued on one GenericWrap.
MaxGenOps == 4

\* insert, remove and lend calls issued on one LendingWrap.
MaxLendOps == 3

\* ---------------------------------------------------------------- universe

\* Keys and values of the tests' map (get_hash, key 5 of basic_edits).
Keys == {0, 1, 2, 5}

\* The values repeated_insertion inserts.
InsertValues == {"Five", "Three", "Four"}

\* The text basic_edits appends through the handle get_mut returns.
Suffixes == {"00"}

None == <<>>

Some(v) == <<v>>

EmptyMap == [x \in {} |-> x]

get_hash == (0 :> "Zero") @@ (1 :> "One") @@ (2 :> "Two")

\* The maps a wrapper is constructed over.
InitialMaps == {get_hash, EmptyMap, (2 :> "Two") @@ (5 :> "Six")}

Behaviors == {"PanicIfUnfinalised", "ImplicitRollback", "ImplicitCommit"}

\* ------------------------------------------------- the map capability used

MapContainsKey(m, k) == k \in DOMAIN m

MapGet(m, k) == IF k \in DOMAIN m THEN Some(m[k]) ELSE None

\* insert returns the previous value; the caller reads it with MapGet first.
MapInsert(m, k, v) == [x \in (DOMAIN m) \cup {k} |-> IF x = k THEN v ELSE m[x]]

MapRemove(m, k) == [x \in (DOMAIN m) \ {k} |-> m[x]]

\* All orders in which a hash set or hash map of these keys may be iterated.
IterationOrders(S) ==
  {o \in [1..Cardinality(S) -> S] : \A i, j \in 1..Cardinality(S) : o[i] = o[j] => i = j}

\* ---------------------------------------------------------------- HashWrap

VARIABLES
  policy,     \* B: the commit behaviour of the wrapper's type
  inner,      \* *self.inner: the underlying map
  added,      \* self.added
  removed,    \* self.removed
  finalised,  \* self.finalised
  live,       \* the wrapper has not been dropped
  handle,     \* key of the &mut V a get_mut returned and the caller holds
  ret,        \* what the last call returned
  nops,       \* mutating calls issued so far
  inner0,     \* the underlying map at HashWrap::new
  plain,      \* a plain map given the same calls, without a wrapper
  plainHandle \* key of the &mut V the plain map's get_mut returned

hvars == <<policy, inner, added, removed, finalised, live, handle, ret, nops,
           inner0, plain, plainHandle>>

\* GenericWrap (src/src/gen_wrap.rs)
VARIABLES
  gw_inner,   \* *self.inner: the original value
  gw_copy,    \* self.copy: the shadow, an Option
  gw_live,    \* the wrapper has been neither consumed nor dropped
  gw_handle,  \* the caller holds the &mut T a deref_mut returned
  gw_ret,     \* what the last call returned
  gw_nops,    \* deref_mut calls and writes issued so far
  gw_inner0,  \* the original at GenericWrap::new
  gw_muts,    \* deref_mut calls so far
  gw_clones,  \* clones of the original taken so far
  gw_text     \* all that was written through deref_mut handles, in order

gvars == <<gw_inner, gw_copy, gw_live, gw_handle, gw_ret, gw_nops, gw_inner0,
           gw_muts, gw_clones, gw_text>>

\* LendingWrap (src/src/lending_wrap.rs)
VARIABLES
  l_inner,    \* *self.inner: the underlying library
  l_added,    \* self.added
  l_removed,  \* self.removed
  l_live,     \* the wrapper has been neither consumed nor dropped
  l_pc,       \* where the running insert or lend is, with its locals
  l_ret,      \* what the last call returned
  l_nops,     \* insert, remove and lend calls issued so far
  l_inner0    \* the underlying library at LendingWrap::new

lvars == <<l_inner, l_added, l_removed, l_live, l_pc, l_ret, l_nops, l_inner0>>

\* A step of one wrapper leaves the variables of the others alone.
OutsideHashWrap == UNCHANGED <<gvars, lvars>>

OutsideGenericWrap == UNCHANGED <<hvars, lvars>>

OutsideLendingWrap == UNCHANGED <<hvars, gvars>>

\* The wrapper's fields as one value.
Self == [inner |-> inner, added |-> added, removed |-> removed,
         finalised |-> finalised]

new(map) == [inner |-> map, added |-> EmptyMap, removed |-> {},
             finalised |-> FALSE]

\* Mutant: the pass ends at the first key the underlying map does not hold.
RECURSIVE RemovePass_stopsAtMissing(_, _)
RemovePass_stopsAtMissing(m, order) ==
  IF order = <<>> \/ ~MapContainsKey(m, Head(order)) THEN m
  ELSE RemovePass_stopsAtMissing(MapRemove(m, Head(order)), Tail(order))

RECURSIVE RemovePass(_, _)
RemovePass(m, order) ==
  IF order = <<>> THEN m
  ELSE RemovePass(MapRemove(m, Head(order)), Tail(order))

RECURSIVE InsertPass(_, _, _)
InsertPass(m, add, order) ==
  IF order = <<>> THEN m
  ELSE InsertPass(MapInsert(m, Head(order), add[Head(order)]), add, Tail(order))

\* ro, ao: the orders in which self.removed and self.added are iterated.
commit_(w, ro, ao) ==
  [w EXCEPT !.inner = InsertPass(RemovePass(w.inner, ro), w.added, ao),
            !.added = EmptyMap,
            !.finalised = TRUE]

\* Mutant: the flag is left as it was.
rollback_forgetsFlag(w) == w

rollback_(w) == [w EXCEPT !.finalised = TRUE]

\* Mutant: the removed set is not consulted.
contains_key_ignoresRemoved(w, k) ==
  MapContainsKey(w.added, k) \/ MapContainsKey(w.inner, k)

contains_key(w, k) ==
  /\ ~(k \in w.removed)
  /\ (MapContainsKey(w.added, k) \/ MapContainsKey(w.inner, k))

\* Mutant: the value also goes straight into the underlying map.
insert_writeThrough(w, k, v) ==
  [w |-> [w EXCEPT !.added = MapInsert(w.added, k, v),
                   !.removed = w.removed \ {k},
                   !.inner = MapInsert(w.inner, k, v)],
   ret |-> IF MapContainsKey(w.added, k) THEN MapGet(w.added, k)
           ELSE IF k \in w.removed THEN None ELSE MapGet(w.inner, k)]

\* Mutant: a removed key reports the value the underlying map still holds.
insert_returnsUnderlying(w, k, v) ==
  [w |-> [w EXCEPT !.added = MapInsert(w.added, k, v),
                   !.removed = w.removed \ {k}],
   ret |-> IF MapContainsKey(w.added, k) THEN MapGet(w.added, k)
           ELSE MapGet(w.inner, k)]

insert(w, k, v) ==
  IF MapContainsKey(w.added, k)
  THEN [w |-> [w EXCEPT !.added = MapInsert(w.added, k, v)],
        ret |-> MapGet(w.added, k)]
  ELSE IF k \in w.removed
  THEN [w |-> [w EXCEPT !.removed = w.removed \ {k},
                        !.added = MapInsert(w.added, k, v)],
        ret |-> MapGet(w.added, k)]
  ELSE IF MapContainsKey(w.inner, k)
  THEN [w |-> [w EXCEPT !.added = MapInsert(w.added, k, v)],
        ret |-> Some(w.inner[k])]
  ELSE [w |-> [w EXCEPT !.added = MapInsert(w.added, k, v)],
        ret |-> None]

\* Mutant: an added key is dropped from added without being marked removed.
remove_forgetsRemoved(w, k) ==
  IF MapContainsKey(w.added, k)
  THEN [w |-> [w EXCEPT !.added = MapRemove(w.added, k)],
        ret |-> MapGet(w.added, k)]
  ELSE IF k \in w.removed
  THEN [w |-> w, ret |-> None]
  ELSE [w |-> [w EXCEPT !.removed = w.removed \cup {k}],
        ret |-> MapGet(w.inner, k)]

remove(w, k) ==
  IF MapContainsKey(w.added, k)
  THEN [w |-> [w EXCEPT !.removed = w.removed \cup {k},
                        !.added = MapRemove(w.added, k)],
        ret |-> MapGet(w.added, k)]
  ELSE IF k \in w.removed
  THEN [w |-> w, ret |-> None]
  ELSE [w |-> [w EXCEPT !.removed = w.removed \cup {k}],
        ret |-> IF MapContainsKey(w.inner, k) THEN Some(w.inner[k]) ELSE None]

\* Mutant: the removed set is not consulted before the copy-on-write.
get_mut_ignoresRemoved(w, k) ==
  IF MapContainsKey(w.added, k)
  THEN [w |-> w, ret |-> Some(k)]
  ELSE IF MapContainsKey(w.inner, k)
  THEN [w |-> [w EXCEPT !.added = MapInsert(w.added, k, w.inner[k])],
        ret |-> Some(k)]
  ELSE [w |-> w, ret |-> None]

\* ret is the key of the entry of added the returned handle points into.
get_mut(w, k) ==
  IF MapContainsKey(w.added, k)
  THEN [w |-> w, ret |-> Some(k)]
  ELSE IF k \in w.removed
  THEN [w |-> w, ret |-> None]
  ELSE IF MapContainsKey(w.inner, k)
  THEN [w |-> [w EXCEPT !.added = MapInsert(w.added, k, w.inner[k])],
        ret |-> Some(k)]
  ELSE [w |-> w, ret |-> None]

\* Mutant: a removed key is looked up in the underlying map.
index_ignoresRemoved(w, k) ==
  IF MapContainsKey(w.added, k) THEN Some(w.added[k])
  ELSE MapGet(w.inner, k)

\* None stands for the panic (panic!() or unwrap of None).
index(w, k) ==
  IF MapContainsKey(w.added, k) THEN Some(w.added[k])
  ELSE IF k \in w.removed THEN None
  ELSE MapGet(w.inner, k)

\* spec_drop of the three SpecDrop impls; panic is UnfinalizedDrop.
\* fired: the policy was triggered; commits: the times _commit ran.
spec_drop(w, b, ro, ao) ==
  IF b = "PanicIfUnfinalised"
  THEN [w |-> w, panic |-> TRUE, fired |-> TRUE, commits |-> 0]
  ELSE IF b = "ImplicitCommit"
  THEN [w |-> commit_(w, ro, ao), panic |-> FALSE, fired |-> TRUE, commits |-> 1]
  ELSE [w |-> rollback_(w), panic |-> FALSE, fired |-> TRUE, commits |-> 0]

\* Mutant: the finalised flag is not consulted.
drop_ignoresFinalised(w, b, ro, ao) == spec_drop(w, b, ro, ao)

drop(w, b, ro, ao) ==
  IF ~w.finalised THEN spec_drop(w, b, ro, ao)
  ELSE [w |-> w, panic |-> FALSE, fired |-> FALSE, commits |-> 0]

HashInit ==
  /\ policy \in Behaviors
  /\ inner0 \in InitialMaps
  /\ inner = new(inner0).inner
  /\ added = new(inner0).added
  /\ removed = new(inner0).removed
  /\ finalised = new(inner0).finalised
  /\ live = TRUE
  /\ handle = None
  /\ ret = [op |-> "new"]
  /\ nops = 0
  /\ plain = inner0
  /\ plainHandle = None

\* The wrapper's fields after a call.
Becomes(w) ==
  /\ inner' = w.inner
  /\ added' = w.added
  /\ removed' = w.removed
  /\ finalised' = w.finalised

\* insert, remove, get_mut and index are defined for HashWrap<'a, K, V, T>
\* only, that is for B = PanicIfUnfinalised.
HasMutators == policy = "PanicIfUnfinalised"

Insert(k, v) ==
  /\ live /\ HasMutators /\ nops < MaxOps
  /\ Becomes(insert(Self, k, v).w)
  /\ ret' = [op |-> "insert", key |-> k, val |-> insert(Self, k, v).ret]
  /\ plain' = MapInsert(plain, k, v)
  /\ handle' = None
  /\ plainHandle' = None
  /\ nops' = nops + 1
  /\ UNCHANGED <<policy, live, inner0>>
  /\ OutsideHashWrap

Remove(k) ==
  /\ live /\ HasMutators /\ nops < MaxOps
  /\ Becomes(remove(Self, k).w)
  /\ ret' = [op |-> "remove", key |-> k, val |-> remove(Self, k).ret]
  /\ plain' = MapRemove(plain, k)
  /\ handle' = None
  /\ plainHandle' = None
  /\ nops' = nops + 1
  /\ UNCHANGED <<policy, live, inner0>>
  /\ OutsideHashWrap

GetMut(k) ==
  /\ live /\ HasMutators /\ nops < MaxOps
  /\ Becomes(get_mut(Self, k).w)
  /\ ret' = [op |-> "get_mut", key |-> k, val |-> get_mut(Self, k).ret]
  /\ handle' = get_mut(Self, k).ret
  /\ plainHandle' = IF MapContainsKey(plain, k) THEN Some(k) ELSE None
  /\ nops' = nops + 1
  /\ UNCHANGED <<policy, live, inner0, plain>>
  /\ OutsideHashWrap

\* push_str through the handle of the last get_mut, while it is borrowed.
Write(s) ==
  /\ live /\ (handle # None \/ plainHandle # None) /\ nops < MaxOps
  /\ added' = IF handle # None
              THEN [added EXCEPT ![handle[1]] = @ \o s] ELSE added
  /\ plain' = IF plainHandle # None
              THEN [plain EXCEPT ![plainHandle[1]] = @ \o s] ELSE plain
  /\ ret' = [op |-> "write", key |-> ret.key]
  /\ nops' = nops + 1
  /\ UNCHANGED <<policy, inner, removed, finalised, live, handle, inner0,
                 plainHandle>>
  /\ OutsideHashWrap

ContainsKey(k) ==
  /\ live
  /\ ret' = [op |-> "contains_key", key |-> k, val |-> contains_key(Self, k)]
  /\ handle' = None
  /\ plainHandle' = None
  /\ UNCHANGED <<policy, inner, added, removed, finalised, live, nops, inner0, plain>>
  /\ OutsideHashWrap

Index(k) ==
  /\ live /\ HasMutators
  /\ ret' = [op |-> "index", key |-> k, val |-> index(Self, k),
             panic |-> index(Self, k) = None]
  /\ handle' = None
  /\ plainHandle' = None
  /\ UNCHANGED <<policy, inner, added, removed, finalised, live, nops, inner0, plain>>
  /\ OutsideHashWrap

\* commit(mut self): _commit, then self is dropped as commit returns.
Commit ==
  /\ live
  /\ \E ro \in IterationOrders(removed), ao \in IterationOrders(DOMAIN added) :
       /\ Becomes(drop(commit_(Self, ro, ao), policy, ro, ao).w)
       /\ ret' = [op |-> "commit",
                  panic |-> drop(commit_(Self, ro, ao), policy, ro, ao).panic,
                  fired |-> drop(commit_(Self, ro, ao), policy, ro, ao).fired,
                  commits |-> 1 + drop(commit_(Self, ro, ao), policy, ro, ao).commits]
  /\ live' = FALSE
  /\ handle' = None
  /\ plainHandle' = None
  /\ UNCHANGED <<policy, nops, inner0, plain>>
  /\ OutsideHashWrap

Rollback ==
  /\ live
  /\ Becomes(drop(rollback_(Self), policy, <<>>, <<>>).w)
  /\ \E ro \in IterationOrders(removed), ao \in IterationOrders(DOMAIN added) :
       ret' = [op |-> "rollback",
               panic |-> drop(rollback_(Self), policy, ro, ao).panic,
               fired |-> drop(rollback_(Self), policy, ro, ao).fired,
               commits |-> drop(rollback_(Self), policy, ro, ao).commits]
  /\ live' = FALSE
  /\ handle' = None
  /\ plainHandle' = None
  /\ UNCHANGED <<policy, nops, inner0, plain>>
  /\ OutsideHashWrap

\* The wrapper goes out of scope with neither commit nor rollback called.
Drop ==
  /\ live
  /\ \E ro \in IterationOrders(removed), ao \in IterationOrders(DOMAIN added) :
       /\ Becomes(drop(Self, policy, ro, ao).w)
       /\ ret' = [op |-> "drop", panic |-> drop(Self, policy, ro, ao).panic,
                  fired |-> drop(Self, policy, ro, ao).fired,
                  commits |-> drop(Self, policy, ro, ao).commits]
  /\ live' = FALSE
  /\ handle' = None
  /\ plainHandle' = None
  /\ UNCHANGED <<policy, nops, inner0, plain>>
  /\ OutsideHashWrap

HashNext ==
  \/ \E k \in Keys, v \in InsertValues : Insert(k, v)
  \/ \E k \in Keys : Remove(k)
  \/ \E k \in Keys : GetMut(k)
  \/ \E s \in Suffixes : Write(s)
  \/ \E k \in Keys : ContainsKey(k)
  \/ \E k \in Keys : Index(k)
  \/ Commit
  \/ Rollback
  \/ Drop

\* An initial state with no HashWrap in it.
HashParked ==
  /\ policy = "PanicIfUnfinalised"
  /\ inner0 = EmptyMap
  /\ inner = EmptyMap
  /\ added = EmptyMap
  /\ removed = {}
  /\ finalised = TRUE
  /\ live = FALSE
  /\ handle = None
  /\ ret = [op |-> "none"]
  /\ nops = 0
  /\ plain = EmptyMap
  /\ plainHandle = None

\* ------------------------------------------------------------- GenericWrap

GenValues == {"Zero", "One", "Two"}

GenSuffixes == {"a", "b"}

\* The wrapper's fields as one value.
GwSelf == [inner |-> gw_inner, copy |-> gw_copy]

gw_new(val) == [inner |-> val, copy |-> None]

\* Mutant: the shadow is stored and handed back, the prior original lost.
replace_returnsShadow(g) ==
  IF g.copy # None
  THEN [inner |-> g.copy[1], ret |-> Some(g.copy[1])]
  ELSE [inner |-> g.inner, ret |-> None]

\* copy.map(|v| mem::replace(inner, v))
replace(g) ==
  IF g.copy # None
  THEN [inner |-> g.copy[1], ret |-> Some(g.inner)]
  ELSE [inner |-> g.inner, ret |-> None]

\* Mutant: discard stores the shadow as replace does.
discard_swaps(g) ==
  [inner |-> IF g.copy # None THEN g.copy[1] ELSE g.inner, ret |-> g.copy]

discard(g) == [inner |-> g.inner, ret |-> g.copy]

deref(g) == IF g.copy # None THEN g.copy[1] ELSE g.inner

\* Mutant: every request clones the original again.
deref_mut_reclones(g) ==
  [g |-> [g EXCEPT !.copy = Some(g.inner)], cloned |-> TRUE]

\* cloned: self.inner.clone() was called.
deref_mut(g) ==
  IF g.copy # None
  THEN [g |-> g, cloned |-> FALSE]
  ELSE [g |-> [g EXCEPT !.copy = Some(g.inner)], cloned |-> TRUE]

GenInit ==
  /\ gw_inner0 \in GenValues
  /\ gw_inner = gw_new(gw_inner0).inner
  /\ gw_copy = gw_new(gw_inner0).copy
  /\ gw_live = TRUE
  /\ gw_handle = FALSE
  /\ gw_ret = [op |-> "new"]
  /\ gw_nops = 0
  /\ gw_muts = 0
  /\ gw_clones = 0
  /\ gw_text = ""

\* An initial state with no GenericWrap in it.
GenParked ==
  /\ gw_inner0 = "Zero"
  /\ gw_inner = "Zero"
  /\ gw_copy = None
  /\ gw_live = FALSE
  /\ gw_handle = FALSE
  /\ gw_ret = [op |-> "none"]
  /\ gw_nops = 0
  /\ gw_muts = 0
  /\ gw_clones = 0
  /\ gw_text = ""

Deref ==
  /\ gw_live
  /\ gw_ret' = [op |-> "deref", val |-> deref(GwSelf)]
  /\ gw_handle' = FALSE
  /\ UNCHANGED <<gw_inner, gw_copy, gw_live, gw_nops, gw_inner0, gw_muts, gw_clones, gw_text>>
  /\ OutsideGenericWrap

DerefMut ==
  /\ gw_live /\ gw_nops < MaxGenOps
  /\ gw_inner' = deref_mut(GwSelf).g.inner
  /\ gw_copy' = deref_mut(GwSelf).g.copy
  /\ gw_ret' = [op |-> "deref_mut", val |-> deref_mut(GwSelf).g.copy[1]]
  /\ gw_handle' = TRUE
  /\ gw_muts' = gw_muts + 1
  /\ gw_clones' = IF deref_mut(GwSelf).cloned THEN gw_clones + 1 ELSE gw_clones
  /\ gw_nops' = gw_nops + 1
  /\ UNCHANGED <<gw_live, gw_inner0, gw_text>>
  /\ OutsideGenericWrap

\* push_str through the &mut T the last deref_mut returned: it points into
\* self.copy.
GenWrite(s) ==
  /\ gw_live /\ gw_handle /\ gw_nops < MaxGenOps
  /\ gw_copy' = Some(gw_copy[1] \o s)
  /\ gw_ret' = [op |-> "write"]
  /\ gw_text' = gw_text \o s
  /\ gw_nops' = gw_nops + 1
  /\ UNCHANGED <<gw_inner, gw_live, gw_handle, gw_inner0, gw_muts, gw_clones>>
  /\ OutsideGenericWrap

Replace ==
  /\ gw_live
  /\ gw_inner' = replace(GwSelf).inner
  /\ gw_ret' = [op |-> "replace", val |-> replace(GwSelf).ret]
  /\ gw_copy' = None
  /\ gw_live' = FALSE
  /\ gw_handle' = FALSE
  /\ UNCHANGED <<gw_nops, gw_inner0, gw_muts, gw_clones, gw_text>>
  /\ OutsideGenericWrap

Discard ==
  /\ gw_live
  /\ gw_inner' = discard(GwSelf).inner
  /\ gw_ret' = [op |-> "discard", val |-> discard(GwSelf).ret]
  /\ gw_copy' = None
  /\ gw_live' = FALSE
  /\ gw_handle' = FALSE
  /\ UNCHANGED <<gw_nops, gw_inner0, gw_muts, gw_clones, gw_text>>
  /\ OutsideGenericWrap

\* GenericWrap has no Drop impl: the fields are dropped, the shadow with them.
GenDrop ==
  /\ gw_live
  /\ gw_ret' = [op |-> "drop"]
  /\ gw_copy' = None
  /\ gw_live' = FALSE
  /\ gw_handle' = FALSE
  /\ UNCHANGED <<gw_inner, gw_nops, gw_inner0, gw_muts, gw_clones, gw_text>>
  /\ OutsideGenericWrap

GenNext ==
  \/ Deref
  \/ DerefMut
  \/ \E s \in GenSuffixes : GenWrite(s)
  \/ Replace
  \/ Discard
  \/ GenDrop

\* ------------------------------------------- the lending collection used
\* LendingLibrary<K, V> and Loan<K, V> of the lending_library crate: a store
\* of values and the keys whose value is checked out.  A key on loan is
\* still contained; lend refuses a key on loan by returning nothing.

LibNew == [store |-> EmptyMap, loans |-> {}]

LibContainsKey(l, k) == k \in DOMAIN l.store

LibInsert(l, k, v) ==
  [lib |-> [l EXCEPT !.store = MapInsert(l.store, k, v)],
   ret |-> MapGet(l.store, k)]

LibRemove(l, k) ==
  [lib |-> [store |-> MapRemove(l.store, k), loans |-> l.loans \ {k}],
   ret |-> k \in DOMAIN l.store]

\* ret is the value the loan dereferences to.
LibLend(l, k) ==
  IF k \notin DOMAIN l.store \/ k \in l.loans
  THEN [lib |-> l, ret |-> None]
  ELSE [lib |-> [l EXCEPT !.loans = l.loans \cup {k}], ret |-> Some(l.store[k])]

\* Drop of a Loan: the value is checked in again.
LibReturn(l, k) == [l EXCEPT !.loans = l.loans \ {k}]

RECURSIVE LibRemoveAll(_, _)
LibRemoveAll(l, order) ==
  IF order = <<>> THEN l
  ELSE LibRemoveAll(LibRemove(l, Head(order)).lib, Tail(order))

\* extend: every entry of other is inserted, in other's iteration order.
RECURSIVE LibExtend(_, _, _)
LibExtend(l, other, order) ==
  IF order = <<>> THEN l
  ELSE LibExtend(LibInsert(l, Head(order), other.store[Head(order)]).lib,
                 other, Tail(order))

\* ------------------------------------------------------------- LendingWrap

LendKeys == {1, 2}

LendValues == {"Five", "Three"}

\* The libraries a wrapper is constructed over: with and without a key the
\* caller has on loan.
InitialLibraries ==
  { [store |-> (1 :> "One") @@ (2 :> "Two"), loans |-> {}],
    [store |-> (1 :> "One") @@ (2 :> "Two"), loans |-> {2}],
    [store |-> (2 :> "Two"), loans |-> {}],
    LibNew }

\* The wrapper's fields as one value.
LwSelf == [inner |-> l_inner, added |-> l_added, removed |-> l_removed]

lw_new(lib) == [inner |-> lib, added |-> LibNew, removed |-> {}]

Idle == [at |-> "idle"]

\* The Loan handed to the caller: the library it was taken from, its key and
\* the value it dereferences to.
LoanOf(owner, k, val) ==
  IF val = None THEN None
  ELSE Some([owner |-> owner, key |-> k, val |-> val[1]])

lw_contains_key(w, k) ==
  /\ ~(k \in w.removed)
  /\ (LibContainsKey(w.added, k) \/ LibContainsKey(w.inner, k))

\* remove that leaves the key in added.
lw_remove_keepsAdded(w, k) ==
  IF LibContainsKey(w.added, k)
  THEN [w |-> [w EXCEPT !.removed = w.removed \cup {k}],
        ret |-> LibRemove(w.added, k).ret]
  ELSE IF k \in w.removed
  THEN [w |-> w, ret |-> FALSE]
  ELSE [w |-> [w EXCEPT !.removed = w.removed \cup {k}],
        ret |-> LibContainsKey(w.inner, k)]

lw_remove(w, k) ==
  IF LibContainsKey(w.added, k)
  THEN [w |-> [w EXCEPT !.removed = w.removed \cup {k},
                        !.added = LibRemove(w.added, k).lib],
        ret |-> LibRemove(w.added, k).ret]
  ELSE IF k \in w.removed
  THEN [w |-> w, ret |-> FALSE]
  ELSE [w |-> [w EXCEPT !.removed = w.removed \cup {k}],
        ret |-> LibContainsKey(w.inner, k)]

\* insert up to, in the branch of a key held by inner only, the end of
\* `let ret = Some((*item).clone())`.  pc is Idle when the call has returned.
lw_insert(w, k, v) ==
  IF LibContainsKey(w.added, k)
  THEN [w |-> [w EXCEPT !.added = LibInsert(w.added, k, v).lib],
        pc |-> Idle, ret |-> LibInsert(w.added, k, v).ret, panic |-> FALSE]
  ELSE IF k \in w.removed
  THEN [w |-> [w EXCEPT !.removed = w.removed \ {k},
                        !.added = LibInsert(w.added, k, v).lib],
        pc |-> Idle, ret |-> LibInsert(w.added, k, v).ret, panic |-> FALSE]
  ELSE IF LibContainsKey(w.inner, k)
  THEN IF LibLend(w.inner, k).ret = None
       THEN [w |-> w, pc |-> Idle, ret |-> None, panic |-> TRUE]
       ELSE [w |-> [w EXCEPT !.inner = LibLend(w.inner, k).lib],
             pc |-> [at |-> "insert_added", key |-> k, val |-> v,
                     item |-> LibLend(w.inner, k).ret[1],
                     ret |-> LibLend(w.inner, k).ret],
             ret |-> None, panic |-> FALSE]
  ELSE [w |-> [w EXCEPT !.added = LibInsert(w.added, k, v).lib],
        pc |-> Idle, ret |-> None, panic |-> FALSE]

\* self.added.insert(k, v) with item alive.
lw_insert_added(w, pc) ==
  [w |-> [w EXCEPT !.added = LibInsert(w.added, pc.key, pc.val).lib],
   pc |-> [pc EXCEPT !.at = "insert_drop"]]

\* The end of the block: item is dropped, ret is returned.
lw_insert_drop(w, pc) ==
  [w |-> [w EXCEPT !.inner = LibReturn(w.inner, pc.key)], ret |-> pc.ret]

\* lend up to, in the branch of a key held by inner only, the end of
\* `let item = self.inner.lend(&k).unwrap()`.
lw_lend(w, k) ==
  IF LibContainsKey(w.added, k)
  THEN [w |-> [w EXCEPT !.added = LibLend(w.added, k).lib],
        pc |-> Idle, ret |-> LoanOf("added", k, LibLend(w.added, k).ret),
        panic |-> FALSE]
  ELSE IF k \in w.removed
  THEN [w |-> w, pc |-> Idle, ret |-> None, panic |-> FALSE]
  ELSE IF LibContainsKey(w.inner, k)
  THEN IF LibLend(w.inner, k).ret = None
       THEN [w |-> w, pc |-> Idle, ret |-> None, panic |-> TRUE]
       ELSE [w |-> [w EXCEPT !.inner = LibLend(w.inner, k).lib],
             pc |-> [at |-> "lend_added_insert", key |-> k,
                     item |-> LibLend(w.inner, k).ret[1]],
             ret |-> None, panic |-> FALSE]
  ELSE [w |-> w, pc |-> Idle, ret |-> None, panic |-> FALSE]

\* self.added.insert(k.clone(), (*item).clone()) with item alive.
lw_lend_added_insert(w, pc) ==
  [w |-> [w EXCEPT !.added = LibInsert(w.added, pc.key, pc.item).lib],
   pc |-> [pc EXCEPT !.at = "lend_added_lend"]]

\* self.added.lend(k), the block's value, with item alive.
lw_lend_added_lend(w, pc) ==
  [w |-> [w EXCEPT !.added = LibLend(w.added, pc.key).lib],
   pc |-> [at |-> "lend_drop", key |-> pc.key, item |-> pc.item,
           ret |-> LoanOf("added", pc.key, LibLend(w.added, pc.key).ret)]]

\* The end of lend with item forgotten instead of dropped.
lw_lend_drop_keepsLoan(w, pc) == [w |-> w, ret |-> pc.ret]

\* The end of the block: item is dropped, the loan from added is returned.
lw_lend_drop(w, pc) ==
  [w |-> [w EXCEPT !.inner = LibReturn(w.inner, pc.key)], ret |-> pc.ret]

\* commit without the pass over removed.
lw_commit_skipsRemoved(w, ro, ao) ==
  [w EXCEPT !.inner = LibExtend(w.inner, w.added, ao)]

\* ro, ao: the orders in which self.removed and self.added are iterated.
lw_commit(w, ro, ao) ==
  [w EXCEPT !.inner = LibExtend(LibRemoveAll(w.inner, ro), w.added, ao)]

\* rollback that moves added into the underlying.
lw_rollback_flushes(w) ==
  [w EXCEPT !.inner =
     LibExtend(w.inner, w.added,
               CHOOSE o \in IterationOrders(DOMAIN w.added.store) : TRUE)]

lw_rollback(w) == w

LendInit ==
  /\ l_inner0 \in InitialLibraries
  /\ l_inner = lw_new(l_inner0).inner
  /\ l_added = lw_new(l_inner0).added
  /\ l_removed = lw_new(l_inner0).removed
  /\ l_live = TRUE
  /\ l_pc = Idle
  /\ l_ret = [op |-> "new"]
  /\ l_nops = 0

\* An initial state with no LendingWrap in it.
LendParked ==
  /\ l_inner0 = LibNew
  /\ l_inner = LibNew
  /\ l_added = LibNew
  /\ l_removed = {}
  /\ l_live = FALSE
  /\ l_pc = Idle
  /\ l_ret = [op |-> "none"]
  /\ l_nops = 0

LwBecomes(w) ==
  /\ l_inner' = w.inner
  /\ l_added' = w.added
  /\ l_removed' = w.removed

LendInsert(k, v) ==
  /\ l_live /\ l_pc = Idle /\ l_nops < MaxLendOps
  /\ LwBecomes(lw_insert(LwSelf, k, v).w)
  /\ l_pc' = lw_insert(LwSelf, k, v).pc
  /\ l_ret' = IF lw_insert(LwSelf, k, v).pc = Idle
              THEN [op |-> "insert", key |-> k, val |-> lw_insert(LwSelf, k, v).ret,
                    panic |-> lw_insert(LwSelf, k, v).panic]
              ELSE [op |-> "running"]
  /\ l_nops' = l_nops + 1
  /\ UNCHANGED <<l_live, l_inner0>>
  /\ OutsideLendingWrap

LendInsertAdded ==
  /\ l_live /\ l_pc.at = "insert_added"
  /\ LwBecomes(lw_insert_added(LwSelf, l_pc).w)
  /\ l_pc' = lw_insert_added(LwSelf, l_pc).pc
  /\ UNCHANGED <<l_live, l_ret, l_nops, l_inner0>>
  /\ OutsideLendingWrap

LendInsertDrop ==
  /\ l_live /\ l_pc.at = "insert_drop"
  /\ LwBecomes(lw_insert_drop(LwSelf, l_pc).w)
  /\ l_pc' = Idle
  /\ l_ret' = [op |-> "insert", key |-> l_pc.key,
               val |-> lw_insert_drop(LwSelf, l_pc).ret, panic |-> FALSE]
  /\ UNCHANGED <<l_live, l_nops, l_inner0>>
  /\ OutsideLendingWrap

LendRemove(k) ==
  /\ l_live /\ l_pc = Idle /\ l_nops < MaxLendOps
  /\ LwBecomes(lw_remove(LwSelf, k).w)
  /\ l_ret' = [op |-> "remove", key |-> k, val |-> lw_remove(LwSelf, k).ret,
               panic |-> FALSE]
  /\ l_nops' = l_nops + 1
  /\ UNCHANGED <<l_live, l_pc, l_inner0>>
  /\ OutsideLendingWrap

LendContainsKey(k) ==
  /\ l_live /\ l_pc = Idle
  /\ l_ret' = [op |-> "contains_key", key |-> k, val |-> lw_contains_key(LwSelf, k),
               panic |-> FALSE]
  /\ UNCHANGED <<l_inner, l_added, l_removed, l_live, l_pc, l_nops, l_inner0>>
  /\ OutsideLendingWrap

Lend(k) ==
  /\ l_live /\ l_pc = Idle /\ l_nops < MaxLendOps
  /\ LwBecomes(lw_lend(LwSelf, k).w)
  /\ l_pc' = lw_lend(LwSelf, k).pc
  /\ l_ret' = IF lw_lend(LwSelf, k).pc = Idle
              THEN [op |-> "lend", key |-> k, val |-> lw_lend(LwSelf, k).ret,
                    panic |-> lw_lend(LwSelf, k).panic]
              ELSE [op |-> "running"]
  /\ l_nops' = l_nops + 1
  /\ UNCHANGED <<l_live, l_inner0>>
  /\ OutsideLendingWrap

LendAddedInsert ==
  /\ l_live /\ l_pc.at = "lend_added_insert"
  /\ LwBecomes(lw_lend_added_insert(LwSelf, l_pc).w)
  /\ l_pc' = lw_lend_added_insert(LwSelf, l_pc).pc
  /\ UNCHANGED <<l_live, l_ret, l_nops, l_inner0>>
  /\ OutsideLendingWrap

LendAddedLend ==
  /\ l_live /\ l_pc.at = "lend_added_lend"
  /\ LwBecomes(lw_lend_added_lend(LwSelf, l_pc).w)
  /\ l_pc' = lw_lend_added_lend(LwSelf, l_pc).pc
  /\ UNCHANGED <<l_live, l_ret, l_nops, l_inner0>>
  /\ OutsideLendingWrap

LendDrop ==
  /\ l_live /\ l_pc.at = "lend_drop"
  /\ LwBecomes(lw_lend_drop(LwSelf, l_pc).w)
  /\ l_pc' = Idle
  /\ l_ret' = [op |-> "lend", key |-> l_pc.key,
               val |-> lw_lend_drop(LwSelf, l_pc).ret, panic |-> FALSE]
  /\ UNCHANGED <<l_live, l_nops, l_inner0>>
  /\ OutsideLendingWrap

\* The caller drops a Loan that lend handed out: it goes back to added.
LoanReturned(k) ==
  /\ l_live /\ l_pc = Idle /\ k \in l_added.loans
  /\ l_added' = LibReturn(l_added, k)
  /\ l_ret' = [op |-> "loan_drop", key |-> k, panic |-> FALSE]
  /\ UNCHANGED <<l_inner, l_removed, l_live, l_pc, l_nops, l_inner0>>
  /\ OutsideLendingWrap

\* commit(self): the wrapper is consumed.
LendCommit ==
  /\ l_live /\ l_pc = Idle
  /\ \E ro \in IterationOrders(l_removed),
        ao \in IterationOrders(DOMAIN l_added.store) :
       LwBecomes(lw_commit(LwSelf, ro, ao))
  /\ l_ret' = [op |-> "commit", panic |-> FALSE]
  /\ l_live' = FALSE
  /\ UNCHANGED <<l_pc, l_nops, l_inner0>>
  /\ OutsideLendingWrap

LendRollback ==
  /\ l_live /\ l_pc = Idle
  /\ LwBecomes(lw_rollback(LwSelf))
  /\ l_ret' = [op |-> "rollback", panic |-> FALSE]
  /\ l_live' = FALSE
  /\ UNCHANGED <<l_pc, l_nops, l_inner0>>
  /\ OutsideLendingWrap

\* LendingWrap has no Drop impl: its fields are dropped, the overlay with them.
LendWrapDrop ==
  /\ l_live /\ l_pc = Idle
  /\ l_ret' = [op |-> "drop", panic |-> FALSE]
  /\ l_live' = FALSE
  /\ UNCHANGED <<l_inner, l_added, l_removed, l_pc, l_nops, l_inner0>>
  /\ OutsideLendingWrap

LendNext ==
  \/ \E k \in LendKeys, v \in LendValues : LendInsert(k, v)
  \/ LendInsertAdded
  \/ LendInsertDrop
  \/ \E k \in LendKeys : LendRemove(k)
  \/ \E k \in LendKeys : LendContainsKey(k)
  \/ \E k \in LendKeys : Lend(k)
  \/ LendAddedInsert
  \/ LendAddedLend
  \/ LendDrop
  \/ \E k \in LendKeys : LoanReturned(k)
  \/ LendCommit
  \/ LendRollback
  \/ LendWrapDrop

\* ---------------------------------------------------------- specifications

vars == <<hvars, gvars, lvars>>

Init == HashInit /\ GenParked /\ LendParked

Next == HashNext

\* One HashWrap over one of InitialMaps, from construction to its drop.
Spec == Init /\ [][Next]_vars

\* One GenericWrap over one of GenValues, from construction to its end.
InitGen == GenInit /\ HashParked /\ LendParked

SpecGen == InitGen /\ [][GenNext]_vars

\* One LendingWrap over one of InitialLibraries, from construction to its end.
InitLend == LendInit /\ HashParked /\ GenParked

SpecLend == InitLend /\ [][LendNext]_vars

\* A HashWrap or a LendingWrap.
InitMaps == Init \/ InitLend

NextMaps == HashNext \/ LendNext

SpecMaps == InitMaps /\ [][NextMaps]_vars

\* ------------------------------------------------------ claims on HashWrap

\* What the wrapper shows for k: added first, then removed, then the
\* underlying map.
LogicalValue(w, k) ==
  IF k \in DOMAIN w.added THEN Some(w.added[k])
  ELSE IF k \in w.removed THEN None
  ELSE MapGet(w.inner, k)

\* C1  Commit equivalence: after commit the underlying map equals the plain
\* map that was given the same insert, remove and get_mut-then-write calls.
C1_CommitEquivalence == ret.op = "commit" => inner = plain

\* remove(1), insert(5, "Five"), get_mut(2) with "00" appended, commit.
C1_Witness ==
  /\ ret.op = "commit" /\ inner0 = get_hash
  /\ DOMAIN inner = {0, 2, 5}
  /\ inner[2] = "Two00" /\ inner[5] = "Five"

\* C2  Rollback no-op: while the wrapper lives (only insert, remove, get_mut,
\* contains_key and index were called) the underlying map is the one given
\* to new, and so it is after rollback and after the drop of an unfinalised
\* ImplicitRollback wrapper.
C2_RollbackNoOp ==
  (\/ live
   \/ ret.op = "rollback"
   \/ (ret.op = "drop" /\ policy = "ImplicitRollback")) => inner = inner0

C2_Witness ==
  /\ ret.op = "rollback" /\ nops = MaxOps
  /\ plain # inner0 /\ removed # {}
  /\ \E k \in DOMAIN inner0 : k \in DOMAIN plain /\ plain[k] # inner0[k]

\* C3  Overlay transparency: contains_key(k) is true iff k is not removed and
\* is in added or in the underlying map, which is iff the plain map given the
\* same calls has k; then index(k) is the plain map's value for k.
C3_OverlayTransparency ==
  /\ live =>
       \A k \in Keys :
         /\ contains_key(Self, k)
              = (k \notin removed /\ (k \in DOMAIN added \/ k \in DOMAIN inner))
         /\ contains_key(Self, k) = (k \in DOMAIN plain)
         /\ (HasMutators /\ contains_key(Self, k))
              => index(Self, k) = Some(plain[k])
  /\ ret.op = "contains_key" => ret.val = (ret.key \in DOMAIN plain)
  /\ (ret.op = "index" /\ ret.key \in DOMAIN plain)
       => ret.val = Some(plain[ret.key])

\* A lookup that returns a value the underlying map does not hold for the
\* key, with another key removed.
C3_Witness ==
  /\ ret.op = "index" /\ ~ret.panic /\ removed # {}
  /\ ret.key \in DOMAIN inner /\ ret.val # Some(inner[ret.key])

\* C4  Previous-value results: insert and remove return the value the logical
\* view held for the key just before the call (added, else nothing if
\* removed, else the underlying map's), which is what the plain map returns.
C4_PreviousValue ==
  [][\A k \in Keys :
       (ret'.op \in {"insert", "remove"} /\ ret'.key = k /\ nops' = nops + 1)
         => /\ ret'.val = LogicalValue(Self, k)
            /\ ret'.val = MapGet(plain, k)]_vars

\* The end of repeated_insertion: remove(1) returns "Four".
C4_Witness ==
  /\ ret.op = "remove" /\ ret.key = 1 /\ ret.val = Some("Four")
  /\ inner0 = get_hash /\ nops = 4 /\ 1 \in removed

\* C5  index(k) panics iff k is absent from the logical view (removed, or in
\* neither added nor the underlying map); otherwise it returns the added
\* value, or the underlying map's when k is not in added.  The underlying
\* map is not modified.
C5_IndexedLookup ==
  ret.op = "index" =>
    /\ ret.panic = (\/ ret.key \in removed
                    \/ (ret.key \notin DOMAIN added /\ ret.key \notin DOMAIN inner))
    /\ ret.panic = (ret.key \notin DOMAIN plain)
    /\ ~ret.panic =>
         ret.val = Some(IF ret.key \in DOMAIN added THEN added[ret.key]
                        ELSE inner[ret.key])
    /\ inner = inner0

\* A removed key the underlying map still holds is looked up.
C5_Witness ==
  /\ ret.op = "index" /\ ret.panic
  /\ ret.key \in removed /\ ret.key \in DOMAIN inner

\* C6  A PanicIfUnfinalised wrapper's destruction panics iff neither commit
\* nor rollback was called; after commit or rollback it never panics.
C6_UnfinalizedDrop ==
  /\ (~live /\ policy = "PanicIfUnfinalised") => (ret.panic = (ret.op = "drop"))
  /\ ret.op \in {"commit", "rollback"} => ~ret.panic

C6_Witness ==
  /\ ret.op = "drop" /\ ret.panic /\ policy = "PanicIfUnfinalised"
  /\ added # EmptyMap /\ removed # {}

\* C7  An ImplicitCommit wrapper takes insert, remove and get_mut calls, and
\* when it is dropped unfinalised the underlying map is what an explicit
\* commit of these calls makes it: the plain map given the same calls.
C7_ImplicitCommitAppliesChanges ==
  /\ (policy = "ImplicitCommit" /\ live /\ nops < MaxOps)
       => /\ ENABLED (\E k \in Keys, v \in InsertValues : Insert(k, v))
          /\ ENABLED (\E k \in Keys : Remove(k))
          /\ ENABLED (\E k \in Keys : GetMut(k))
  /\ (policy = "ImplicitCommit" /\ ret.op = "drop") => inner = plain

\* C8  Copy-on-write get_mut: a handle is returned iff the key is in the
\* logical view; a key held by the underlying map only is copied into added
\* and the underlying map is left alone; what is written through the handle
\* is what later lookups return, and it is in the underlying map only after
\* commit (insert(5, "Five"), get_mut(2) with "00" appended, commit: four
\* entries, "Two00" at 2 and "Five" at 5).
C8_CopyOnWriteGetMut ==
  /\ [][\A k \in Keys :
          (ret'.op = "get_mut" /\ ret'.key = k /\ nops' = nops + 1)
            => /\ (ret'.val # None) = contains_key(Self, k)
               /\ (ret'.val # None) = (k \in DOMAIN plain)
               /\ ret'.val # None
                    => /\ handle' = Some(k)
                       /\ k \in DOMAIN added'
                       /\ added'[k] = plain[k]
               /\ (ret'.val # None /\ k \notin DOMAIN added)
                    => added' = MapInsert(added, k, inner[k])
               /\ ret'.val = None => added' = added
               /\ inner' = inner
               /\ removed' = removed]_vars
  /\ [](ret.op = "write"
          => /\ index(Self, ret.key) = Some(plain[ret.key])
             /\ contains_key(Self, ret.key)
             /\ inner = inner0)
  /\ []((/\ ret.op = "commit"
          /\ inner0 = get_hash
          /\ plain = MapInsert(MapInsert(get_hash, 5, "Five"), 2, "Two00"))
          => /\ Cardinality(DOMAIN inner) = 4
             /\ inner[2] = "Two00"
             /\ inner[5] = "Five")

\* The end of basic_edits.
C8_Witness ==
  /\ ret.op = "commit" /\ inner0 = get_hash /\ nops = 3
  /\ Cardinality(DOMAIN inner) = 4
  /\ inner[2] = "Two00" /\ inner[5] = "Five"

\* C18  Finalize exactly once: finalised is never reset; the underlying map
\* changes only in the step that ends an unfinalised wrapper; commit runs
\* _commit once and rollback never, both set finalised and their own drop
\* does not trigger the policy; the drop of an unfinalised wrapper triggers
\* the policy once, running _commit once under ImplicitCommit only.
C18_FinalizeOnce ==
  /\ [][finalised => finalised']_vars
  /\ [][inner' # inner => (live /\ ~finalised /\ ~live')]_vars
  /\ [](live => (~finalised /\ inner = inner0))
  /\ [](ret.op = "commit"
          => (finalised /\ ret.commits = 1 /\ ~ret.fired /\ ~ret.panic))
  /\ [](ret.op = "rollback"
          => (finalised /\ ret.commits = 0 /\ ~ret.fired /\ inner = inner0))
  /\ [](ret.op = "drop"
          => /\ ret.fired
             /\ ret.commits = IF policy = "ImplicitCommit" THEN 1 ELSE 0
             /\ finalised = (policy # "PanicIfUnfinalised"))

\* A commit that changed the underlying map.
C18_Witness ==
  /\ ret.op = "commit" /\ ret.commits = 1 /\ finalised
  /\ inner # inner0 /\ removed # {}

\* C19  Commit determinism: what _commit makes of the underlying map is the
\* same for every iteration order of removed and of added: the underlying
\* map without the removed keys, overlaid with added.
C19_CommitDeterminism ==
  live =>
    \A ro \in IterationOrders(removed), ao \in IterationOrders(DOMAIN added) :
      commit_(Self, ro, ao).inner
        = [k \in ((DOMAIN inner) \ removed) \cup DOMAIN added |->
             IF k \in DOMAIN added THEN added[k] ELSE inner[k]]

\* Two keys removed and two entries added, then committed.
C19_Witness ==
  /\ ret.op = "commit" /\ inner0 = get_hash
  /\ Cardinality(removed) >= 2
  /\ 5 \in DOMAIN inner /\ 2 \in DOMAIN inner /\ inner[2] # "Two"

\* --------------------------------------------------- claims on GenericWrap

\* C9  Copy-on-write laziness: new, deref, deref_mut, writes through the
\* handle, discard and the drop leave the original as it was given to new;
\* there is no shadow before the first deref_mut; replace and discard with no
\* deref_mut before them return nothing and leave the original untouched.
C9_CopyOnWriteLaziness ==
  /\ gw_ret.op # "replace" => gw_inner = gw_inner0
  /\ gw_muts = 0 => (gw_copy = None /\ gw_clones = 0)
  /\ (gw_ret.op = "replace" /\ gw_muts = 0)
       => (gw_ret.val = None /\ gw_inner = gw_inner0)
  /\ (gw_ret.op = "discard" /\ gw_muts = 0) => gw_ret.val = None

\* discard hands back a shadow that was written to; the original differs.
C9_Witness ==
  /\ gw_ret.op = "discard" /\ gw_ret.val # None
  /\ gw_ret.val # Some(gw_inner) /\ gw_text # ""

\* C10  Idempotent shadow reuse: the original is cloned at most once, by the
\* first deref_mut; a later deref_mut returns the shadow as it is, which is
\* the original's clone with everything written so far; deref returns the
\* shadow when there is one.
C10_IdempotentShadowReuse ==
  /\ [](/\ gw_clones <= 1
        /\ (gw_clones = 1) = (gw_muts >= 1)
        /\ gw_copy # None => gw_copy[1] = gw_inner0 \o gw_text
        /\ (gw_ret.op = "deref" /\ gw_copy # None) => gw_ret.val = gw_copy[1])
  /\ [][(gw_ret'.op = "deref_mut" /\ gw_nops' = gw_nops + 1)
          => /\ gw_copy # None => (gw_copy' = gw_copy /\ gw_clones' = gw_clones)
             /\ gw_copy = None => (gw_muts = 0 /\ gw_clones' = gw_clones + 1)
             /\ gw_ret'.val = gw_inner0 \o gw_text]_vars

\* A read after a second deref_mut and writes on both sides of it.
C10_Witness ==
  /\ gw_ret.op = "deref" /\ gw_muts >= 2 /\ gw_text = "ab"
  /\ gw_copy # None /\ gw_ret.val # gw_inner

\* C11  replace: with a shadow, the shadow (the original's clone with all
\* that was written) is stored in the original's place and the value the
\* original held is returned; with no shadow, nothing is returned and the
\* original keeps its value.
C11_Replace ==
  [][(gw_ret'.op = "replace" /\ gw_live)
       => IF gw_copy # None
          THEN /\ gw_inner' = gw_copy[1]
               /\ gw_inner' = gw_inner0 \o gw_text
               /\ gw_ret'.val = Some(gw_inner)
               /\ gw_ret'.val = Some(gw_inner0)
          ELSE /\ gw_ret'.val = None
               /\ gw_inner' = gw_inner]_vars

\* replace after two writes: the original now holds the written shadow.
C11_Witness ==
  /\ gw_ret.op = "replace" /\ gw_ret.val = Some(gw_inner0)
  /\ gw_text = "ab" /\ gw_inner = gw_inner0 \o "ab"

\* ------------------------------------------------- claims on LendingWrap

\* The key of the running lend whose loan on inner (the local `item`) is alive.
LendItemHeld ==
  IF l_pc.at \in {"lend_added_insert", "lend_added_lend", "lend_drop"}
  THEN {l_pc.key} ELSE {}

\* C12: lend(k) delegates to added when k is in added, returns nothing when k
\* is in removed or absent everywhere, and for a key held by the underlying
\* only it never fails, copies the underlying's value into added and returns
\* a loan of added that dereferences to that value; a commit after remove(k)
\* leaves k absent from the underlying.
C12_Lend ==
  /\ [][(l_live /\ l_pc = Idle /\ l_nops' = l_nops + 1 /\ l_ret'.op = "lend")
          => LET k == l_ret'.key IN
             /\ ~l_ret'.panic
             /\ IF LibContainsKey(l_added, k)
                THEN /\ l_ret'.val = LoanOf("added", k, LibLend(l_added, k).ret)
                     /\ l_added' = LibLend(l_added, k).lib
                ELSE /\ l_ret'.val = None
                     /\ (k \in l_removed \/ ~LibContainsKey(l_inner, k))
                     /\ l_added' = l_added]_vars
  /\ [][(l_live /\ l_pc.at = "lend_added_insert")
          => /\ l_pc.key \notin DOMAIN l_added.store
             /\ l_pc.key \notin l_removed
             /\ l_pc.item = l_inner.store[l_pc.key]]_vars
  /\ [][(l_live /\ l_pc.at = "lend_drop" /\ l_ret'.op = "lend")
          => LET k == l_ret'.key IN
             /\ l_ret'.val = Some([owner |-> "added", key |-> k,
                                   val |-> l_inner.store[k]])
             /\ l_added'.store[k] = l_inner.store[k]
             /\ k \in l_added'.loans]_vars
  /\ [][(l_live /\ l_ret'.op = "commit")
          => \A k \in l_removed : ~LibContainsKey(l_inner', k)]_vars

\* C13: while lend holds its loan on the underlying, the copy is not yet in
\* added and no loan of added is out for that key.
C13_LoanReleasedBeforeOverlay ==
  \A k \in LendItemHeld :
    k \in l_inner.loans
      => (k \notin DOMAIN l_added.store /\ k \notin l_added.loans)

\* C14: commit leaves the underlying with the keys of (initial underlying
\* minus removed) united with added, the keys of added with their added
\* value, every other key with its initial value.
C14_LendCommit ==
  /\ [](l_live => l_inner.store = l_inner0.store)
  /\ [][(l_live /\ l_ret'.op = "commit")
          => l_inner'.store
               = [k \in ((DOMAIN l_inner0.store) \ l_removed) \cup DOMAIN l_added.store |->
                    IF k \in DOMAIN l_added.store THEN l_added.store[k]
                    ELSE l_inner0.store[k]]]_vars

C14_Witness ==
  /\ l_ret.op = "commit"
  /\ l_inner0.store = (1 :> "One") @@ (2 :> "Two")
  /\ l_inner.store = (2 :> "Five")
  /\ l_removed = {1}

C16_Totality ==
  /\ ("panic" \in DOMAIN ret /\ ret.panic) => ret.op \in {"drop", "index"}
  /\ (ret.op = "index" /\ ret.panic) => ~contains_key(Self, ret.key)
  /\ (ret.op = "drop" /\ ret.panic) => (policy = "PanicIfUnfinalised" /\ ~finalised)
  /\ ("panic" \in DOMAIN l_ret) => ~l_ret.panic

\* C17: no key is in both added and removed, in HashWrap and in LendingWrap.
C17_Disjoint ==
  /\ (DOMAIN added) \cap removed = {}
  /\ (DOMAIN l_added.store) \cap l_removed = {}

C17_Witness ==
  /\ l_ret.op = "remove"
  /\ l_ret.key \in l_removed
  /\ l_ret.val = TRUE
  /\ l_inner0 = LibNew
  /\ l_nops = MaxLendOps
  /\ l_added.store # EmptyMap

\* C20: between the calls of a live wrapper the keys on loan in the
\* underlying are those on loan at construction, and a loan returned by lend
\* is a loan of added.
C20_NoLeakedLoans ==
  /\ (l_live /\ l_pc = Idle) => l_inner.loans = l_inner0.loans
  /\ l_inner0.loans \subseteq l_inner.loans \/ ~l_live
  /\ (l_ret.op = "lend" /\ l_ret.val # None)
       => (l_ret.val[1].owner = "added" /\ l_ret.key \in l_added.loans)
  /\ (l_ret.op = "insert" /\ ~l_ret.panic) => l_inner.loans = l_inner0.loans

C20_Witness ==
  /\ l_ret.op = "lend"
  /\ l_ret.val = Some([owner |-> "added", key |-> 1, val |-> "One"])
  /\ l_inner0.loans = {2}
  /\ l_inner.loans = {2}
  /\ l_added.loans = {1}

====
